---- MODULE Spec2Model ----
(***************************************************************************)
(* A model of src/wasm.c: the binding hash table (wasm_hash_new_entry,     *)
(* wasm_hash_resize, wasm_insert_binding, find_binding_index_by_name), the *)
(* variable resolution built on it, wasm_func_is_exported,                 *)
(* wasm_extend_type_bindings and the destroy functions of a tableswitch    *)
(* expression and of a func.                                               *)
(*                                                                         *)
(* Pointers into a slot array are slot numbers, NULL is -1.  A string      *)
(* slice is [start, length]; start is the address of an allocation (0 is   *)
(* the null pointer) and MemBytes(start) the bytes stored there.           *)
(***************************************************************************)
EXTENDS Integers, Sequences, FiniteSets, TLC

VARIABLES
  hash,      \* a binding table of a module (WasmBindingHash)
  inserted,  \* the names inserted into hash by the calls that succeeded
  placed,    \* for each of them, how wasm_hash_new_entry placed it
  growths,   \* how often the capacity of hash has changed
  ret,       \* what the last call returned
  func,      \* a WasmFunc
  decl,      \* the names of the params and locals declared in func (0: unnamed)
  expr,      \* the root of an expression tree (WasmExpr*)
  module,    \* the exports and funcs vectors of a WasmModule
  frees,     \* the calls of free() made so far, in order
  pc         \* where the owner of func or expr is in its life

table_vars == <<hash, inserted, placed, growths>>

ast_vars == <<func, decl, expr, module, frees, pc>>

vars == <<hash, inserted, placed, growths, ret, func, decl, expr, module, frees, pc>>

\* ------------------------------------------------------------------ bounds

\* The number of wasm_insert_binding calls that succeed on one table.
MaxInserts == 17

\* The number of successful inserts when names may be declared twice.
MaxDupInserts == 9

\* The number of successful inserts into a table that variables are resolved
\* against.
MaxResolveInserts == 9

\* The numbers of params and of locals of a func.
MaxParams == 9

MaxLocals == 2

\* The number of cases of a tableswitch.
MaxCases == 9

\* The sizes of the funcs and exports vectors of a module.
MaxFuncs == 2

MaxExports == 2

\* --------------------------------------------------------------- constants

INITIAL_HASH_CAPACITY == 8

NULL == 0 - 1

WASM_OK == "WASM_OK"

WASM_ERROR == "WASM_ERROR"

WASM_VAR_TYPE_INDEX == "WASM_VAR_TYPE_INDEX"

WASM_VAR_TYPE_NAME == "WASM_VAR_TYPE_NAME"

\* What a slot of a freshly reserved array holds in binding.index: the array
\* comes from realloc and wasm_hash_resize sets name, next and prev only.  No
\* function of wasm.c reads the index of a free slot.
IndeterminateIndex == 0 - 1000

\* ------------------------------------------------------------- the memory

\* The bytes stored at an allocation.  Two addresses 64 apart hold equal
\* bytes: a name and a reference to it are separate allocations.
MemBytes(start) ==
  LET k == start % 64
  IN IF k % 2 = 1 THEN << 96 + ((k + 1) \div 2) >>
     ELSE << 96 + (k \div 2), 48 + (k % 10) >>

Slice(start) ==
  [start |-> start, length |-> IF start = 0 THEN 0 ELSE Len(MemBytes(start))]

\* memcmp(a->start, b->start, n) == 0
RECURSIVE memcmp_eq(_, _, _)
memcmp_eq(a, b, n) ==
  IF n = 0 THEN TRUE
  ELSE /\ MemBytes(a)[n] = MemBytes(b)[n]
       /\ memcmp_eq(a, b, n - 1)

wasm_string_slices_are_equal(a, b) ==
  /\ a.start # 0
  /\ b.start # 0
  /\ a.length = b.length
  /\ memcmp_eq(a.start, b.start, a.length)

\* ------------------------------------------------------------ the hashing

\* a ^ b on naturals, bit by bit.
RECURSIVE Xor(_, _)
Xor(a, b) ==
  IF a = 0 THEN b
  ELSE IF b = 0 THEN a
  ELSE ((a + b) % 2) + 2 * Xor(a \div 2, b \div 2)

\* A uint32_t is kept as two 16-bit halves: hi * 65536 + lo.
\* hval ^= (uint32_t)byte
U32XorByte(h, byte) == [hi |-> h.hi, lo |-> Xor(h.lo, byte)]

\* hval *= 0x01000193, modulo 2^32 (0x0100 and 0x0193 are the halves of the prime).
U32MulPrime(h) ==
  LET low == h.lo * 403
  IN [lo |-> low % 65536,
      hi |-> (h.hi * 403 + h.lo * 256 + (low \div 65536)) % 65536]

\* The while loop of wasm_hash_name, from byte i of the slice on.
RECURSIVE wasm_hash_name_loop(_, _, _)
wasm_hash_name_loop(name, i, hval) ==
  IF i > name.length THEN hval
  ELSE wasm_hash_name_loop(name, i + 1,
         U32MulPrime(U32XorByte(hval, MemBytes(name.start)[i])))

\* FNV-1a, offset basis 0x811c9dc5.
wasm_hash_name(name) ==
  wasm_hash_name_loop(name, 1, [hi |-> 33052, lo |-> 40389])

\* hval % capacity
U32Mod(h, capacity) ==
  (((h.hi % capacity) * (65536 % capacity)) + (h.lo % capacity)) % capacity

\* wasm_hash_name of every allocation of the memory, computed once.
HashOfStart == [start \in 1 .. 127 |-> wasm_hash_name(Slice(start))] @@ << >>

wasm_hash_main_entry(h, name) ==
  U32Mod(IF name.start = 0 THEN wasm_hash_name(name) ELSE HashOfStart[name.start],
         h.entries.capacity)

wasm_hash_entry_is_free(entry) == entry.binding.name.start = 0

\* ------------------------------------------------------------- statements

\* The element of a set of one element.  For statements in sequence,
\* Only({Rest(x) : x \in {first}}) is Rest applied to the value of first,
\* which is evaluated before Rest is.
Only(singleton) == CHOOSE element \in singleton : TRUE

\* -------------------------------------------------------------- the table

\* WasmBindingHash hash = {}
EmptyHash ==
  [entries |-> [data |-> << >>, size |-> 0, capacity |-> 0], free_head |-> NULL]

\* The walk "while (other_entry->next != entry) other_entry = other_entry->next".
RECURSIVE chain_predecessor(_, _, _)
chain_predecessor(data, other_entry, entry) ==
  IF data[other_entry].next = entry THEN other_entry
  ELSE chain_predecessor(data, data[other_entry].next, entry)

\* wasm_hash_new_entry, main position claimed: the head of the free list is
\* taken off the list.
take_free_head(d, free_entry) ==
  LET fnext == d[free_entry].next
  IN IF fnext # NULL THEN [d EXCEPT ![fnext].prev = NULL] ELSE d

\* A variant of add_second_in_chain that puts the free entry at the end of the
\* chain.
RECURSIVE chain_last(_, _)
chain_last(d, entry) ==
  IF d[entry].next = NULL THEN entry ELSE chain_last(d, d[entry].next)

add_last_in_chain(d, entry, free_entry) ==
  [data |-> [d EXCEPT ![free_entry].next = NULL,
                      ![chain_last(d, entry)].next = free_entry],
   entry |-> free_entry,
   how |-> "second_in_chain"]

\* wasm_hash_new_entry, the occupant of the main position is in its own main
\* position: the free entry becomes the second entry of the chain.
add_second_in_chain(d, entry, free_entry) ==
  [data |-> [d EXCEPT ![free_entry].next = d[entry].next,
                      ![entry].next = free_entry],
   entry |-> free_entry,
   how |-> "second_in_chain"]

\* A variant of move_to_free_entry that leaves the predecessor's link alone.
move_to_free_entry_no_relink(d, entry, free_entry, other_entry) ==
  LET d3 == [d EXCEPT ![free_entry] = d[entry]]
  IN [data |-> [d3 EXCEPT ![entry].next = NULL],
      entry |-> entry,
      how |-> "moved_occupant"]

\* wasm_hash_new_entry, the occupant belongs to the chain of other_entry: it is
\* moved to the free entry and the new name takes the main position.
move_to_free_entry(d, entry, free_entry, other_entry) ==
  LET pred == chain_predecessor(d, other_entry, entry)
      d2 == [d EXCEPT ![pred].next = free_entry]
      d3 == [d2 EXCEPT ![free_entry] = d2[entry]]
  IN [data |-> [d3 EXCEPT ![entry].next = NULL],
      entry |-> entry,
      how |-> "moved_occupant"]

\* A variant of remove_from_free_list that leaves the prev link of the next
\* free entry alone.
remove_from_free_list_keeps_prev(d, entry) ==
  LET n == d[entry].next
      p == d[entry].prev
      d2 == IF p # NULL THEN [d EXCEPT ![p].next = n] ELSE d
  IN [data |-> [d2 EXCEPT ![entry].next = NULL],
      entry |-> entry,
      how |-> "main_free"]

\* wasm_hash_new_entry, main position free: it is removed from the free list.
remove_from_free_list(d, entry) ==
  LET n == d[entry].next
      p == d[entry].prev
      d1 == IF n # NULL THEN [d EXCEPT ![n].prev = p] ELSE d
      d2 == IF p # NULL THEN [d1 EXCEPT ![p].next = n] ELSE d1
  IN [data |-> [d2 EXCEPT ![entry].next = NULL],
      entry |-> entry,
      how |-> "main_free"]

\* The end of wasm_hash_new_entry: the binding of the entry that was put is
\* zeroed and given the name, and its prev link is cleared.
set_binding(h, name, put, free_head) ==
  [hash |-> [entries |-> [h.entries EXCEPT
                !.data = [put.data EXCEPT
                    ![put.entry].binding = [name |-> name, index |-> 0],
                    ![put.entry].prev = NULL]],
             free_head |-> free_head],
   entry |-> put.entry,
   how |-> put.how]

\* The branches of wasm_hash_new_entry, entry being the main position of name.
put_entry(h, name, entry) ==
  LET d == h.entries.data
      free_entry == h.free_head
  IN IF ~wasm_hash_entry_is_free(d[entry])
     THEN set_binding(h, name,
            IF wasm_hash_main_entry(h, d[entry].binding.name) = entry
            THEN add_second_in_chain(take_free_head(d, free_entry), entry, free_entry)
            ELSE move_to_free_entry(take_free_head(d, free_entry), entry, free_entry,
                   wasm_hash_main_entry(h, d[entry].binding.name)),
            d[free_entry].next)
     ELSE set_binding(h, name, remove_from_free_list(d, entry),
            IF d[entry].prev # NULL THEN h.free_head ELSE d[entry].next)

\* The table after wasm_hash_new_entry, the slot it returns, and which branch ran.
wasm_hash_new_entry(h, name) == put_entry(h, name, wasm_hash_main_entry(h, name))

\* wasm_reserve_binding_hash_entrys on an empty vector: capacity slots of
\* indeterminate content, size stays 0.
wasm_reserve_binding_hash_entrys(desired_capacity) ==
  [data |-> [i \in 0 .. desired_capacity - 1 |->
               [binding |-> [name |-> Slice(0), index |-> IndeterminateIndex],
                next |-> NULL, prev |-> NULL]],
   size |-> 0,
   capacity |-> desired_capacity]

\* The body of the first loop of wasm_hash_resize for slot i: the slot is
\* made free and becomes the head of the free list.
resize_free_entry(nh, i) ==
  LET d == nh.entries.data
      d1 == IF nh.free_head # NULL
            THEN [d EXCEPT ![nh.free_head].prev = i] ELSE d
      d2 == [d1 EXCEPT ![i].binding.name = Slice(0),
                       ![i].next = nh.free_head]
  IN [entries |-> [nh.entries EXCEPT !.data = d2], free_head |-> i]

\* "update the free list": the first loop of wasm_hash_resize for the slots
\* first .. last, those of the first half of the range and then those of the
\* second.
RECURSIVE resize_free_list(_, _, _)
resize_free_list(nh, first, last) ==
  IF first > last THEN nh
  ELSE IF first = last THEN resize_free_entry(nh, first)
  ELSE Only({resize_free_list(half, (first + last) \div 2 + 1, last) :
               half \in {resize_free_list(nh, first, (first + last) \div 2)}})

\* A variant of copy_binding that keeps the zeroed binding of the new entry.
copy_binding_name_only(new_binding, old_binding) == new_binding

\* new_entry->binding = old_entry->binding
copy_binding(new_binding, old_binding) == old_binding

\* The new table once new, the result of wasm_hash_new_entry, has been given
\* the binding of old_entry.
copy_old_entry(new, old_entry) ==
  [new.hash EXCEPT !.entries.data[new.entry].binding =
     copy_binding(@, old_entry.binding)]

\* The body of the second loop for the old entry at slot i.
resize_copy_entry(h, nh, i) ==
  LET old_entry == h.entries.data[i]
  IN IF wasm_hash_entry_is_free(old_entry) THEN nh
     ELSE copy_old_entry(wasm_hash_new_entry(nh, old_entry.binding.name), old_entry)

\* "copy from the old hash to the new hash": the second loop of
\* wasm_hash_resize for the old slots first .. last, those of the first half
\* of the range and then those of the second.
RECURSIVE resize_copy(_, _, _, _)
resize_copy(h, nh, first, last) ==
  IF first > last THEN nh
  ELSE IF first = last THEN resize_copy_entry(h, nh, first)
  ELSE Only({resize_copy(h, half, (first + last) \div 2 + 1, last) :
               half \in {resize_copy(h, nh, first, (first + last) \div 2)}})

\* wasm_hash_resize after the allocation: new_hash, whose capacity is
\* desired_capacity, with its free list built, its head's prev cleared and
\* the old entries copied into it.
resize_new_hash(h, desired_capacity) ==
  Only({resize_copy(h, [nh EXCEPT !.entries.data[nh.free_head].prev = NULL],
                    0, h.entries.capacity - 1) :
          nh \in {resize_free_list(
                    [entries |-> wasm_reserve_binding_hash_entrys(desired_capacity),
                     free_head |-> NULL],
                    0, desired_capacity - 1)}})

\* A variant of wasm_hash_resize that has cleared the table when the
\* allocation fails.
wasm_hash_resize_clears(h, desired_capacity, reserve_ok) ==
  IF ~reserve_ok THEN [result |-> WASM_ERROR, hash |-> EmptyHash]
  ELSE [result |-> WASM_OK, hash |-> resize_new_hash(h, desired_capacity)]

\* reserve_ok: whether the allocation of the new slot array succeeds.
wasm_hash_resize(h, desired_capacity, reserve_ok) ==
  IF ~reserve_ok THEN [result |-> WASM_ERROR, hash |-> h]
  ELSE [result |-> WASM_OK, hash |-> resize_new_hash(h, desired_capacity)]

\* A variant of grown_capacity that grows by the initial capacity.
grown_capacity_by_step(h) == h.entries.capacity + INITIAL_HASH_CAPACITY

\* hash->entries.capacity * 2
grown_capacity(h) == h.entries.capacity * 2

\* The end of wasm_insert_binding: entry is what wasm_hash_new_entry returned.
insert_new_entry(entry, resize_calls) ==
  [hash |-> [entry.hash EXCEPT !.entries.size = @ + 1],
   binding |-> entry.entry, how |-> entry.how, resize_calls |-> resize_calls]

\* wasm_insert_binding from the result of its second "if" on: resized is what
\* wasm_hash_resize returned there, or WASM_OK with the table when it was not
\* called.
insert_after_growth(resized, name, resize_calls) ==
  IF resized.result # WASM_OK
  THEN [hash |-> resized.hash, binding |-> NULL, how |-> "none",
        resize_calls |-> resize_calls]
  ELSE insert_new_entry(wasm_hash_new_entry(resized.hash, name), resize_calls)

\* wasm_insert_binding from the result of its first "if" on.
insert_after_initial_resize(resized, name, reserves, resize_calls) ==
  IF resized.result # WASM_OK
  THEN [hash |-> resized.hash, binding |-> NULL, how |-> "none",
        resize_calls |-> resize_calls]
  ELSE IF resized.hash.free_head = NULL
  THEN insert_after_growth(
         wasm_hash_resize(resized.hash, grown_capacity(resized.hash),
                          reserves[resize_calls + 1]),
         name, resize_calls + 1)
  ELSE insert_after_growth(resized, name, resize_calls)

\* reserves: the outcomes of the allocations the call makes, in order.
\* Returns the table, the slot of the returned binding (NULL when the call
\* fails), which branch of wasm_hash_new_entry placed the name, and how many
\* times the call ran wasm_hash_resize.
wasm_insert_binding(h, name, reserves) ==
  IF h.entries.size = 0
  THEN insert_after_initial_resize(
         wasm_hash_resize(h, INITIAL_HASH_CAPACITY, reserves[1]), name, reserves, 1)
  ELSE insert_after_initial_resize([result |-> WASM_OK, hash |-> h], name,
                                   reserves, 0)

\* The do-while loop of find_binding_index_by_name, at slot entry.
RECURSIVE find_binding_loop(_, _, _)
find_binding_loop(h, name, entry) ==
  LET d == h.entries.data
  IN IF wasm_string_slices_are_equal(d[entry].binding.name, name)
     THEN d[entry].binding.index
     ELSE LET n == d[entry].next
          IN IF n # NULL /\ ~wasm_hash_entry_is_free(d[n])
             THEN find_binding_loop(h, name, n)
             ELSE 0 - 1

find_binding_index_by_name(h, name) ==
  IF h.entries.capacity = 0 THEN 0 - 1
  ELSE find_binding_loop(h, name, wasm_hash_main_entry(h, name))

\* A variant of wasm_get_index_from_var that checks an index against the
\* number of bindings.
wasm_get_index_from_var_checked(h, var) ==
  IF var.type = WASM_VAR_TYPE_NAME
  THEN find_binding_index_by_name(h, var.name)
  ELSE IF var.index >= 0 /\ var.index < h.entries.size THEN var.index ELSE 0 - 1

wasm_get_index_from_var(h, var) ==
  IF var.type = WASM_VAR_TYPE_NAME
  THEN find_binding_index_by_name(h, var.name)
  ELSE var.index

wasm_get_local_index_by_var(f, var) ==
  wasm_get_index_from_var(f.params_and_locals.bindings, var)

\* ------------------------------------------------------------ the module

\* The WasmFunc objects a module may point to, by address: two funcs named
\* 'a' (in two allocations) and a func with no name.
FuncPtrs == {1, 2, 3}

FuncAt(ptr) ==
  [name |-> IF ptr = 1 THEN Slice(1) ELSE IF ptr = 2 THEN Slice(129) ELSE Slice(0)]

\* module->funcs.data[index]; reading outside the vector gives no func of the
\* module.
funcs_data(m, index) ==
  IF index >= 0 /\ index < Len(m.funcs) THEN m.funcs[index + 1] ELSE 0

\* A variant of export_index_in_range without the lower bound.
export_index_below_size(m, index) == index < Len(m.funcs)

\* index >= 0 && index < module->funcs.size
export_index_in_range(m, index) == index >= 0 /\ index < Len(m.funcs)

\* The for loop of wasm_func_is_exported, from export i on; reads collects
\* the indices at which funcs.data was read.
RECURSIVE func_is_exported_loop(_, _, _, _)
func_is_exported_loop(m, func_ptr, i, reads) ==
  IF i >= Len(m.exports) THEN [value |-> 0, reads |-> reads]
  ELSE LET export == m.exports[i + 1]
           index == export.var.index
       IN IF export.var.type = WASM_VAR_TYPE_NAME
          THEN IF wasm_string_slices_are_equal(export.var.name, FuncAt(func_ptr).name)
               THEN [value |-> 1, reads |-> reads]
               ELSE func_is_exported_loop(m, func_ptr, i + 1, reads)
          ELSE IF export_index_in_range(m, index)
               THEN IF funcs_data(m, index) = func_ptr
                    THEN [value |-> 1, reads |-> reads \cup {index}]
                    ELSE func_is_exported_loop(m, func_ptr, i + 1,
                                               reads \cup {index})
               ELSE func_is_exported_loop(m, func_ptr, i + 1, reads)

wasm_func_is_exported(m, func_ptr) == func_is_exported_loop(m, func_ptr, 0, {})

\* ------------------------------------------------------ named-type lists

\* WasmTypeBindings
EmptyTypeBindings == [types |-> << >>, bindings |-> EmptyHash]

\* wasm_extend_types: src is appended to dst unless the allocation fails.
wasm_extend_types(dst, src, reserve_ok) ==
  IF reserve_ok THEN [result |-> WASM_OK, types |-> dst \o src]
  ELSE [result |-> WASM_ERROR, types |-> dst]

\* A variant of fixup_binding that copies the source binding as it is.
fixup_binding_unshifted(src_binding, last_type) == src_binding

\* *dst_binding = src_entry->binding; dst_binding->index += last_type
fixup_binding(src_binding, last_type) ==
  [src_binding EXCEPT !.index = @ + last_type]

\* The body of the loop of wasm_extend_type_bindings from the result of
\* wasm_insert_binding on: bound is what it returned for the name of slot i
\* of src.  The state of the loop is the result so far (WASM_ERROR once the
\* loop has returned), the table of dst, and requested, the number of
\* allocations the call has made.
extend_binding(bound, state, src, i, last_type) ==
  IF bound.binding = NULL
  THEN [result |-> WASM_ERROR, hash |-> bound.hash,
        requested |-> state.requested + bound.resize_calls]
  ELSE [result |-> WASM_OK,
        hash |-> [bound.hash EXCEPT !.entries.data[bound.binding].binding =
                    fixup_binding(src.bindings.entries.data[i].binding, last_type)],
        requested |-> state.requested + bound.resize_calls]

\* The body of the loop for slot i of src.  The call's allocations are
\* numbered and allocation number fail_at fails (none when fail_at is 0).
extend_binding_entry(state, src, i, last_type, fail_at) ==
  IF state.result # WASM_OK THEN state
  ELSE IF wasm_hash_entry_is_free(src.bindings.entries.data[i]) THEN state
  ELSE extend_binding(
         wasm_insert_binding(state.hash, src.bindings.entries.data[i].binding.name,
           << state.requested + 1 # fail_at, state.requested + 2 # fail_at >>),
         state, src, i, last_type)

\* The for loop of wasm_extend_type_bindings for the slots first .. last of
\* src, those of the first half of the range and then those of the second.
RECURSIVE extend_bindings_loop(_, _, _, _, _, _)
extend_bindings_loop(state, src, first, last, last_type, fail_at) ==
  IF first > last THEN state
  ELSE IF first = last THEN extend_binding_entry(state, src, first, last_type, fail_at)
  ELSE Only({extend_bindings_loop(half, src, (first + last) \div 2 + 1, last,
                                  last_type, fail_at) :
               half \in {extend_bindings_loop(state, src, first,
                           (first + last) \div 2, last_type, fail_at)}})

\* What wasm_extend_type_bindings returns and leaves in dst once its loop has
\* ended with looped.
extended_type_bindings(types, looped) ==
  [result |-> looped.result, dst |-> [types |-> types, bindings |-> looped.hash]]

wasm_extend_type_bindings(dst, src, fail_at) ==
  LET last_type == Len(dst.types)
      extended == wasm_extend_types(dst.types, src.types, 1 # fail_at)
  IN IF extended.result # WASM_OK
     THEN [result |-> extended.result, dst |-> dst]
     ELSE extended_type_bindings(extended.types,
            extend_bindings_loop(
              [result |-> WASM_OK, hash |-> dst.bindings, requested |-> 1],
              src, 0, src.bindings.entries.capacity - 1, last_type, fail_at))

\* ------------------------------------------------------------ destruction

\* Every destroy operator gives the calls of free() it makes, in order.

\* free(ptr) of a byte allocation; free(NULL) does nothing.
free_bytes(start) ==
  IF start = 0 THEN << >>
  ELSE << [bytes |-> start, vector |-> "", node |-> 0] >>

\* free(vec->data) of the vector named vector; data is NULL while the vector
\* has no capacity.
free_vector_data(vector, has_data) ==
  IF ~has_data THEN << >>
  ELSE << [bytes |-> 0, vector |-> vector, node |-> 0] >>

\* free(*expr) of an expression node.
free_node(node) == << [bytes |-> 0, vector |-> "", node |-> node] >>

wasm_destroy_string_slice(str) == free_bytes(str.start)

wasm_destroy_var(var) ==
  IF var.type = WASM_VAR_TYPE_NAME THEN wasm_destroy_string_slice(var.name)
  ELSE << >>

wasm_destroy_type_vector(types, vector) ==
  free_vector_data(vector, Len(types) > 0)

wasm_destroy_binding_hash_entry_vector(h, vector) ==
  free_vector_data(vector, h.entries.capacity > 0)

wasm_destroy_binding_hash_entry(entry) ==
  wasm_destroy_string_slice(entry.binding.name)

\* The for loop of wasm_destroy_binding_hash, over capacity, from slot i on.
RECURSIVE destroy_binding_hash_loop(_, _)
destroy_binding_hash_loop(h, i) ==
  IF i >= h.entries.capacity THEN << >>
  ELSE wasm_destroy_binding_hash_entry(h.entries.data[i])
         \o destroy_binding_hash_loop(h, i + 1)

wasm_destroy_binding_hash(h, vector) ==
  destroy_binding_hash_loop(h, 0)
    \o wasm_destroy_binding_hash_entry_vector(h, vector)

\* path names the WasmTypeBindings: its two vectors are path.types and
\* path.bindings.
wasm_destroy_type_bindings(type_bindings, path) ==
  wasm_destroy_type_vector(type_bindings.types, path \o ".types")
    \o wasm_destroy_binding_hash(type_bindings.bindings, path \o ".bindings")

\* A variant of destroy_params_and_locals that destroys it like params and
\* locals.
destroy_params_and_locals_owned(type_bindings) ==
  wasm_destroy_type_bindings(type_bindings, "params_and_locals")

\* wasm_destroy_func: "params_and_locals shares binding data with params and
\* locals", only its two vectors are destroyed.
destroy_params_and_locals(type_bindings) ==
  wasm_destroy_type_vector(type_bindings.types, "params_and_locals.types")
    \o wasm_destroy_binding_hash_entry_vector(type_bindings.bindings,
                                              "params_and_locals.bindings")

\* A vector of the tree: data names its array ("" is NULL), elems are its
\* size elements.
EmptyVector == [data |-> "", elems |-> << >>]

wasm_destroy_target(target) == wasm_destroy_var(target.var)

\* DESTROY_VECTOR_AND_ELEMENTS(targets, target), from element i on.
RECURSIVE destroy_targets(_, _)
destroy_targets(targets, i) ==
  IF i > Len(targets.elems) THEN free_vector_data(targets.data, targets.data # "")
  ELSE wasm_destroy_target(targets.elems[i]) \o destroy_targets(targets, i + 1)

\* A variant of destroy_case_bindings that destroys the table with its names.
destroy_case_bindings_owned(case_bindings) ==
  wasm_destroy_binding_hash(case_bindings, "case_bindings")

\* wasm_destroy_expr, WASM_EXPR_TYPE_TABLESWITCH: "the binding name memory is
\* shared, so just destroy the vector".
destroy_case_bindings(case_bindings) ==
  wasm_destroy_binding_hash_entry_vector(case_bindings, "case_bindings")

RECURSIVE wasm_destroy_expr(_)
RECURSIVE wasm_destroy_expr_ptr(_)
RECURSIVE destroy_expr_ptrs(_, _)
RECURSIVE destroy_cases(_, _)

\* DESTROY_VECTOR_AND_ELEMENTS(exprs, expr_ptr), from element i on.
destroy_expr_ptrs(exprs, i) ==
  IF i > Len(exprs.elems) THEN free_vector_data(exprs.data, exprs.data # "")
  ELSE wasm_destroy_expr_ptr(exprs.elems[i]) \o destroy_expr_ptrs(exprs, i + 1)

wasm_destroy_case(case_) ==
  wasm_destroy_string_slice(case_.label) \o destroy_expr_ptrs(case_.exprs, 1)

\* DESTROY_VECTOR_AND_ELEMENTS(cases, case), from element i on.
destroy_cases(cases, i) ==
  IF i > Len(cases.elems) THEN free_vector_data(cases.data, cases.data # "")
  ELSE wasm_destroy_case(cases.elems[i]) \o destroy_cases(cases, i + 1)

\* The switch of wasm_destroy_expr, for the expression types of the trees
\* built here: block, tableswitch and nop.
wasm_destroy_expr(e) ==
  IF e.type = "WASM_EXPR_TYPE_BLOCK"
  THEN wasm_destroy_string_slice(e.block.label)
         \o destroy_expr_ptrs(e.block.exprs, 1)
  ELSE IF e.type = "WASM_EXPR_TYPE_TABLESWITCH"
  THEN wasm_destroy_string_slice(e.tableswitch.label)
         \o wasm_destroy_expr_ptr(e.tableswitch.expr)
         \o destroy_targets(e.tableswitch.targets, 1)
         \o wasm_destroy_target(e.tableswitch.default_target)
         \o destroy_case_bindings(e.tableswitch.case_bindings)
         \o destroy_cases(e.tableswitch.cases, 1)
  ELSE << >>

wasm_destroy_expr_ptr(e) == wasm_destroy_expr(e) \o free_node(e.node)

\* WasmFunc, with a name, a type variable and no expressions.
EmptyFunc ==
  [name |-> Slice(62),
   type_var |-> [type |-> WASM_VAR_TYPE_NAME, name |-> Slice(60)],
   params |-> EmptyTypeBindings,
   locals |-> EmptyTypeBindings,
   params_and_locals |-> EmptyTypeBindings,
   exprs |-> EmptyVector]

wasm_destroy_func(f) ==
  wasm_destroy_string_slice(f.name)
    \o wasm_destroy_var(f.type_var)
    \o wasm_destroy_type_bindings(f.params, "params")
    \o wasm_destroy_type_bindings(f.locals, "locals")
    \o destroy_params_and_locals(f.params_and_locals)
    \o destroy_expr_ptrs(f.exprs, 1)

\* A nop expression at node.
NopExpr(node) == [type |-> "WASM_EXPR_TYPE_NOP", node |-> node]

\* A block labelled 'c8' whose one expression is a tableswitch labelled 'd0'
\* on a nop key, with no cases yet and a default target given by index.
EmptyTableswitchInBlock ==
  [type |-> "WASM_EXPR_TYPE_BLOCK",
   node |-> 1,
   block |->
     [label |-> Slice(56),
      exprs |->
        [data |-> "block.exprs",
         elems |->
           << [type |-> "WASM_EXPR_TYPE_TABLESWITCH",
               node |-> 2,
               tableswitch |->
                 [label |-> Slice(58),
                  expr |-> NopExpr(3),
                  targets |-> EmptyVector,
                  default_target |->
                    [type |-> "WASM_TARGET_TYPE_BR",
                     var |-> [type |-> WASM_VAR_TYPE_INDEX, index |-> 0]],
                  case_bindings |-> EmptyHash,
                  cases |-> EmptyVector]] >>]]]

\* ------------------------------------------------------------ the actions

Init ==
  /\ hash = EmptyHash
  /\ inserted = << >>
  /\ ret = [op |-> "none"]
  /\ growths = 0
  /\ placed = << >>
  /\ func = EmptyFunc
  /\ decl = [params |-> << >>, locals |-> << >>]
  /\ expr = EmptyTableswitchInBlock
  /\ module = [exports |-> << >>, funcs |-> << >>]
  /\ frees = << >>
  /\ pc = "declaring"

\* A caller's "binding->index = index" on the binding that
\* wasm_insert_binding returned.
set_binding_index(inserted_binding, index) ==
  [inserted_binding.hash EXCEPT
     !.entries.data[inserted_binding.binding].binding.index = index]

\* The outcomes of the allocations of one call: all succeed, or one fails.
ReserveOutcomes == {<<TRUE, TRUE>>, <<FALSE, TRUE>>, <<TRUE, FALSE>>}

\* A caller declares the next entity: wasm_insert_binding(&hash, &name), then
\* binding->index = the entity's position.  inserted and placed record, for
\* each call that succeeded, the name, the branch of wasm_hash_new_entry that
\* placed it and the number of growths up to and including the call.
InsertBinding(start, limit) ==
  /\ Len(inserted) < limit
  /\ \E reserves \in ReserveOutcomes :
     \E r \in {wasm_insert_binding(hash, Slice(start), reserves)} :
       LET grown == IF r.hash.entries.capacity # hash.entries.capacity
                    THEN growths + 1 ELSE growths
       IN /\ ret' = [op |-> "insert", binding |-> r.binding,
                     reserve_failed |->
                       \E k \in 1 .. r.resize_calls : ~reserves[k]]
          /\ growths' = grown
          /\ IF r.binding = NULL
             THEN /\ hash' = r.hash
                  /\ inserted' = inserted
                  /\ placed' = placed
             ELSE /\ hash' = set_binding_index(r, Len(inserted))
                  /\ inserted' = Append(inserted, start)
                  /\ placed' = Append(placed, [how |-> r.how, growths |-> grown])
  /\ UNCHANGED ast_vars

\* The names a caller may declare next: pairwise distinct, one or two per
\* position.
FreshNames ==
  LET n == Len(inserted)
  IN {2 * n + 1} \cup (IF n % 3 # 2 THEN {2 * n + 2} ELSE {})

InsertFresh == \E start \in FreshNames : InsertBinding(start, MaxInserts)

Next == InsertFresh

Spec == Init /\ [][Next]_vars

\* Redeclarations: the names 'a' and 'c6' may be declared again and again,
\* 'h' once.  'a' and 'c6' hash to the same slot at every capacity, 'h' to the
\* slot at the head of the fresh free list; a redeclared name is a second
\* allocation holding the same bytes.
DupNames == {1, 6}

Declared(k) == \E i \in 1 .. Len(inserted) : inserted[i] = k

InsertDup ==
  \E k \in DupNames \cup (IF Declared(15) THEN {} ELSE {15}) :
    InsertBinding(IF Declared(k) THEN k + 64 ELSE k, MaxDupInserts)

NextDup == InsertDup

SpecDup == Init /\ [][NextDup]_vars

\* Resolution: names are declared, possibly twice, and variables are resolved
\* against the table at any point.
NameVar(start) == [type |-> WASM_VAR_TYPE_NAME, name |-> Slice(start)]

IndexVar(index) == [type |-> WASM_VAR_TYPE_INDEX, index |-> index]

\* References to 'a', 'c6', 'h', to the undeclared 'b' and 'a2', a name with a
\* null start, and indices in and out of any range.
ResolvedVars ==
  {NameVar(start) : start \in {65, 70, 79, 3, 2, 0}}
    \cup {IndexVar(index) : index \in {0 - 1, 0, 3, 100}}

InsertResolvable ==
  \E k \in DupNames :
    InsertBinding(IF Declared(k) THEN k + 64 ELSE k, MaxResolveInserts)

GetIndexFromVar ==
  \E var \in ResolvedVars :
    /\ ret' = [op |-> "resolve", var |-> var,
               index |-> wasm_get_index_from_var(hash, var)]
    /\ UNCHANGED table_vars
    /\ UNCHANGED ast_vars

NextResolve == InsertResolvable \/ GetIndexFromVar

SpecResolve == Init /\ [][NextResolve]_vars

\* A func: params are declared, then locals; params_and_locals is extended
\* with params and then with locals; the func may be destroyed at any point.

\* Appending a type to a named-type list and, when it is named, binding the
\* name to the position of the type.
DeclareType(type_bindings, type, start) ==
  [types |-> Append(type_bindings.types, type),
   bindings |->
     IF start = 0 THEN type_bindings.bindings
     ELSE set_binding_index(
            wasm_insert_binding(type_bindings.bindings, Slice(start), <<TRUE, TRUE>>),
            Len(type_bindings.types))]

\* Param i is named by allocation 2i - 1 ('a', 'b', ...); the first three
\* may be unnamed.
AddParam ==
  /\ pc = "declaring"
  /\ Len(decl.locals) = 0
  /\ Len(decl.params) < MaxParams
  /\ LET i == Len(decl.params) + 1
     IN \E start \in {2 * i - 1} \cup (IF i <= 3 THEN {0} ELSE {}) :
          /\ func' = [func EXCEPT
                !.params = DeclareType(@, IF start = 0 THEN "WASM_TYPE_I64"
                                         ELSE "WASM_TYPE_I32", start)]
          /\ decl' = [decl EXCEPT !.params = Append(@, start)]
  /\ ret' = [op |-> "declare"]
  /\ UNCHANGED <<expr, module, frees, pc>>
  /\ UNCHANGED table_vars

\* Local j is unnamed, or named by a fresh allocation ('j0', 'k2', ...), or by
\* an allocation holding the bytes of param j's name; the second local may
\* also be named by an allocation holding the bytes of the first local's name.
\* Every name is an allocation of its own.
AddLocal ==
  /\ pc = "declaring"
  /\ Len(decl.locals) < MaxLocals
  /\ LET j == Len(decl.locals) + 1
     IN \E start \in {0, 18 + 2 * j, 2 * j - 1 + 64}
                        \cup (IF j = 2 THEN {20 + 64} ELSE {}) :
          /\ func' = [func EXCEPT
                !.locals = DeclareType(@, IF start = 0 THEN "WASM_TYPE_F64"
                                         ELSE "WASM_TYPE_F32", start)]
          /\ decl' = [decl EXCEPT !.locals = Append(@, start)]
  /\ ret' = [op |-> "declare"]
  /\ UNCHANGED <<expr, module, frees, pc>>
  /\ UNCHANGED table_vars

\* wasm_extend_type_bindings(&func->params_and_locals, &func->params)
ExtendWithParams ==
  /\ pc = "declaring"
  /\ \E fail_at \in 0 .. 3 :
     \E r \in {wasm_extend_type_bindings(func.params_and_locals, func.params,
                                        fail_at)} :
          /\ func' = [func EXCEPT !.params_and_locals = r.dst]
          /\ ret' = [op |-> "extend", src |-> "params", result |-> r.result]
          /\ pc' = IF r.result = WASM_OK THEN "extended_params" ELSE "failed"
  /\ UNCHANGED <<decl, expr, module, frees>>
  /\ UNCHANGED table_vars

\* wasm_extend_type_bindings(&func->params_and_locals, &func->locals)
ExtendWithLocals ==
  /\ pc = "extended_params"
  /\ \E fail_at \in 0 .. 3 :
     \E r \in {wasm_extend_type_bindings(func.params_and_locals, func.locals,
                                        fail_at)} :
          /\ func' = [func EXCEPT !.params_and_locals = r.dst]
          /\ ret' = [op |-> "extend", src |-> "locals", result |-> r.result]
          /\ pc' = IF r.result = WASM_OK THEN "extended_locals" ELSE "failed"
  /\ UNCHANGED <<decl, expr, module, frees>>
  /\ UNCHANGED table_vars

DestroyFunc ==
  /\ pc # "destroyed"
  /\ frees' = frees \o wasm_destroy_func(func)
  /\ ret' = [op |-> "destroy_func"]
  /\ pc' = "destroyed"
  /\ UNCHANGED <<func, decl, expr, module>>
  /\ UNCHANGED table_vars

NextFunc ==
  \/ AddParam
  \/ AddLocal
  \/ ExtendWithParams
  \/ ExtendWithLocals
  \/ DestroyFunc

SpecFunc == Init /\ [][NextFunc]_vars

\* A tableswitch in a block: cases are added, each with a target that
\* refers to it, and the tree may be destroyed at any point.
Tableswitch == expr.block.exprs.elems[1].tableswitch

\* Case i has a one-nop body and is labelled by allocation 2i - 1 or not at
\* all; its label is bound in case_bindings to its position, the binding
\* sharing the label's bytes.  The target that refers to the case holds its
\* own copy of the label, or the position.
AddCase ==
  /\ pc = "declaring"
  /\ Len(Tableswitch.cases.elems) < MaxCases
  /\ LET i == Len(Tableswitch.cases.elems) + 1
     IN \E start \in {2 * i - 1, 0} :
          LET case_ == [label |-> Slice(start),
                        exprs |-> [data |-> "case.exprs." \o ToString(i),
                                   elems |-> << NopExpr(10 + i) >>]]
              target == [type |-> "WASM_TARGET_TYPE_CASE",
                         var |-> IF start = 0
                                 THEN [type |-> WASM_VAR_TYPE_INDEX, index |-> i - 1]
                                 ELSE [type |-> WASM_VAR_TYPE_NAME,
                                       name |-> Slice(start + 64)]]
          IN expr' = [expr EXCEPT !.block.exprs.elems[1].tableswitch =
               [@ EXCEPT
                  !.cases = [data |-> "cases", elems |-> Append(@.elems, case_)],
                  !.targets = [data |-> "targets", elems |-> Append(@.elems, target)],
                  !.case_bindings =
                     IF start = 0 THEN @
                     ELSE set_binding_index(
                            wasm_insert_binding(@, case_.label, <<TRUE, TRUE>>),
                            i - 1)]]
  /\ ret' = [op |-> "declare"]
  /\ UNCHANGED <<func, decl, module, frees, pc>>
  /\ UNCHANGED table_vars

DestroyExpr ==
  /\ pc # "destroyed"
  /\ frees' = frees \o wasm_destroy_expr_ptr(expr)
  /\ ret' = [op |-> "destroy_expr"]
  /\ pc' = "destroyed"
  /\ UNCHANGED <<func, decl, expr, module>>
  /\ UNCHANGED table_vars

NextSwitch == AddCase \/ DestroyExpr

SpecSwitch == Init /\ [][NextSwitch]_vars

\* A module: funcs and exports are appended, and funcs are asked about.
AddFunc ==
  /\ Len(module.funcs) < MaxFuncs
  /\ \E ptr \in FuncPtrs :
       /\ \A i \in 1 .. Len(module.funcs) : module.funcs[i] # ptr
       /\ module' = [module EXCEPT !.funcs = Append(@, ptr)]
  /\ ret' = [op |-> "declare"]
  /\ UNCHANGED <<func, decl, expr, frees, pc>>
  /\ UNCHANGED table_vars

\* Exports by the names 'a' and 'b', by a name with a null start, and by
\* indices below, in and beyond the funcs vector.
ExportVars ==
  {NameVar(start) : start \in {65, 3, 0}}
    \cup {IndexVar(index) : index \in {0 - 1, 0, 1, 2}}

AddExport ==
  /\ Len(module.exports) < MaxExports
  /\ \E var \in ExportVars :
       module' = [module EXCEPT !.exports = Append(@, [var |-> var])]
  /\ ret' = [op |-> "declare"]
  /\ UNCHANGED <<func, decl, expr, frees, pc>>
  /\ UNCHANGED table_vars

FuncIsExported ==
  /\ \E ptr \in FuncPtrs :
     \E r \in {wasm_func_is_exported(module, ptr)} :
          ret' = [op |-> "is_exported", func |-> ptr, value |-> r.value,
                  reads |-> r.reads]
  /\ UNCHANGED ast_vars
  /\ UNCHANGED table_vars

NextExport == AddFunc \/ AddExport \/ FuncIsExported

SpecExport == Init /\ [][NextExport]_vars

\* ------------------------------------------------------ the claims' terms

Capacity == hash.entries.capacity

Placements == {placed[i].how : i \in 1 .. Len(placed)}

Slots(h) == 0 .. h.entries.capacity - 1

Occupied(h) == {s \in Slots(h) : ~wasm_hash_entry_is_free(h.entries.data[s])}

\* The slots met from slot s on by following next through occupied slots.
RECURSIVE ChainFrom(_, _, _)
ChainFrom(h, s, seen) ==
  IF s = NULL \/ s \in seen THEN seen
  ELSE IF wasm_hash_entry_is_free(h.entries.data[s]) THEN seen
  ELSE ChainFrom(h, h.entries.data[s].next, seen \cup {s})

\* A second allocation holding the bytes of the name at start.
Reference(start) == Slice((start % 64) + 64)

PairwiseDistinct(starts) ==
  \A i, j \in 1 .. Len(starts) :
    i # j => ~wasm_string_slices_are_equal(Slice(starts[i]), Slice(starts[j]))

\* C1: after every insert of a sequence of pairwise distinct names, each
\* declared with its position as index, the lookup of every name inserted so
\* far returns the index recorded at its insertion, whatever the placement of
\* the names and however often the table has grown.
DistinctNamesKeepIndex ==
  PairwiseDistinct(inserted) =>
    \A i \in 1 .. Len(inserted) :
      find_binding_index_by_name(hash, Reference(inserted[i])) = i - 1

\* C1's case: seventeen distinct names are in, the table is in its third slot
\* array (8 -> 16 -> 32) and every branch of wasm_hash_new_entry has placed a name.
TwoGrowthsAllPlacements ==
  /\ Capacity = 32
  /\ Len(inserted) >= 17
  /\ PairwiseDistinct(inserted)
  /\ Placements = {"main_free", "second_in_chain", "moved_occupant"}

\* C3: every occupied slot is on the chain that starts at the slot its own
\* name hashes to, followed through occupied slots only.
OccupiedOnOwnChain ==
  \A s \in Occupied(hash) :
    LET m == wasm_hash_main_entry(hash, hash.entries.data[s].binding.name)
    IN /\ m \in Occupied(hash)
       /\ s \in ChainFrom(hash, m, {})

\* C3's case: an occupant has been moved out of another name's main slot, the
\* table has grown since its first array, and some chain is three slots long.
MovedAndChained ==
  /\ "moved_occupant" \in Placements
  /\ growths >= 2
  /\ \E m \in Occupied(hash) : Cardinality(ChainFrom(hash, m, {})) >= 3

SameName(a, b) == wasm_string_slices_are_equal(Slice(a), Slice(b))

\* The positions in inserted of the insertions of the name inserted at i.
Insertions(i) == {j \in 1 .. Len(inserted) : SameName(inserted[i], inserted[j])}

\* The positions of first insertions of names that were inserted again.
Redeclared ==
  {i \in 1 .. Len(inserted) :
     /\ \A j \in Insertions(i) : i <= j
     /\ Insertions(i) # {i}}

Max(S) == CHOOSE m \in S : \A x \in S : x <= m

\* C2 as claimed: a name inserted twice resolves to the index of its first
\* insertion.
FirstInsertionWins ==
  \A i \in Redeclared :
    find_binding_index_by_name(hash, Reference(inserted[i])) = i - 1

\* C2, amended: a name inserted twice resolves to the index of one of its
\* insertions; while the table has not grown since the first insertion, that
\* is the first insertion's when it was placed in the name's main slot, and
\* the most recent insertion's when it was chained behind the occupant of
\* that slot.
RedeclaredResolvesByPlacement ==
  \A i \in Redeclared :
    LET found == find_binding_index_by_name(hash, Reference(inserted[i]))
    IN /\ found + 1 \in Insertions(i)
       /\ placed[i].growths = growths =>
            found + 1 = IF placed[i].how = "second_in_chain"
                        THEN Max(Insertions(i)) ELSE i

\* C2's case: a name first chained behind another was inserted again, and so
\* was a name first placed in its main slot, in one slot array; a third name
\* has since moved an occupant.
RedeclaredBothWays ==
  /\ \E i \in Redeclared :
       placed[i].growths = growths /\ placed[i].how = "second_in_chain"
  /\ \E i \in Redeclared :
       placed[i].growths = growths /\ placed[i].how = "main_free"
  /\ placed[Len(placed)].how = "moved_occupant"

\* The positions in inserted of the insertions of the name a variable holds.
InsertionsOf(name) ==
  {j \in 1 .. Len(inserted) :
     wasm_string_slices_are_equal(Slice(inserted[j]), name)}

\* C8: an Index variable resolves to its index whatever the table holds; a
\* Name variable resolves to the index bound to the name, and to -1 when the
\* name was never inserted or the table has no slots; resolving leaves the
\* table as it is.
ResolveByVarType ==
  /\ [](ret.op = "resolve" =>
          IF ret.var.type = WASM_VAR_TYPE_INDEX THEN ret.index = ret.var.index
          ELSE IF InsertionsOf(ret.var.name) = {} \/ Capacity = 0
               THEN ret.index = 0 - 1
               ELSE ret.index + 1 \in InsertionsOf(ret.var.name))
  /\ [][ret'.op = "resolve" => hash' = hash]_vars

\* C8's case: in a table that has grown twice, a name resolves to an index
\* held by a slot other than the name's main slot.
ResolvedChainedName ==
  /\ ret.op = "resolve"
  /\ ret.var.type = WASM_VAR_TYPE_NAME
  /\ ret.index >= 1
  /\ growths = 2
  /\ wasm_hash_main_entry(hash, ret.var.name) \notin
       {s \in Occupied(hash) : hash.entries.data[s].binding.index = ret.index}

\* How often free() was called on the byte allocation at start.
FreeCount(start) ==
  Cardinality({k \in 1 .. Len(frees) : frees[k].bytes = start})

\* How often free() was called on the array of vector.
VectorFreeCount(vector) ==
  Cardinality({k \in 1 .. Len(frees) : frees[k].vector = vector})

NodeFreeCount(node) ==
  Cardinality({k \in 1 .. Len(frees) : frees[k].node = node})

NothingFreedTwice ==
  \A k, l \in 1 .. Len(frees) : k # l => frees[k] # frees[l]

NamesOf(starts) == {starts[i] : i \in 1 .. Len(starts)} \ {0}

CaseLabels ==
  {Tableswitch.cases.elems[i].label.start :
     i \in 1 .. Len(Tableswitch.cases.elems)} \ {0}

\* C5: destroying a tree that holds a tableswitch frees every label of its
\* cases exactly once although case_bindings shares them, frees the slot
\* array of case_bindings and nothing else of it, frees nothing twice and
\* leaves nothing of the tree unfreed.
TableswitchLabelsFreedOnce ==
  ret.op = "destroy_expr" =>
    /\ \A start \in CaseLabels : FreeCount(start) = 1
    /\ NothingFreedTwice
    /\ VectorFreeCount("case_bindings") =
         IF Tableswitch.case_bindings.entries.capacity > 0 THEN 1 ELSE 0
    /\ \A i \in 1 .. Len(Tableswitch.targets.elems) :
         LET var == Tableswitch.targets.elems[i].var
         IN var.type = WASM_VAR_TYPE_NAME => FreeCount(var.name.start) = 1
    /\ FreeCount(Tableswitch.label.start) = 1
    /\ FreeCount(expr.block.label.start) = 1
    /\ \A node \in {1, 2, 3} \cup {10 + i : i \in 1 .. Len(Tableswitch.cases.elems)} :
         NodeFreeCount(node) = 1
    /\ \A vector \in {"block.exprs"}
           \cup (IF Len(Tableswitch.cases.elems) > 0
                 THEN {"cases", "targets"} ELSE {})
           \cup {"case.exprs." \o ToString(i) :
                   i \in 1 .. Len(Tableswitch.cases.elems)} :
         VectorFreeCount(vector) = 1

\* C5's case: a destroyed tableswitch of nine labelled cases, whose
\* case_bindings had grown to sixteen slots.
DestroyedGrownTableswitch ==
  /\ ret.op = "destroy_expr"
  /\ Cardinality(CaseLabels) >= 9
  /\ Tableswitch.case_bindings.entries.capacity = 16
  /\ \A start \in CaseLabels :
       find_binding_index_by_name(Tableswitch.case_bindings, Reference(start)) >= 0

\* C6: wasm_destroy_func frees every name held by the params table and by the
\* locals table exactly once, also after the tables have grown, and frees no
\* name through params_and_locals: of that only the arrays are freed.
FuncNamesFreedOnce ==
  ret.op = "destroy_func" =>
    /\ \A start \in NamesOf(decl.params) \cup NamesOf(decl.locals) :
         FreeCount(start) = 1
    /\ NothingFreedTwice
    /\ FreeCount(func.name.start) = 1
    /\ FreeCount(func.type_var.name.start) = 1
    /\ \A field \in {"params", "locals", "params_and_locals"} :
         /\ VectorFreeCount(field \o ".bindings") =
              IF func[field].bindings.entries.capacity > 0 THEN 1 ELSE 0
         /\ VectorFreeCount(field \o ".types") =
              IF Len(func[field].types) > 0 THEN 1 ELSE 0

\* C6's case: the destroyed func had nine named params and a named local, its
\* params table and its params_and_locals table had grown to sixteen slots,
\* and params_and_locals resolved a param and a local.
DestroyedGrownFunc ==
  /\ ret.op = "destroy_func"
  /\ Cardinality(NamesOf(decl.params)) >= 9
  /\ Cardinality(NamesOf(decl.locals)) >= 1
  /\ func.params.bindings.entries.capacity = 16
  /\ func.params_and_locals.bindings.entries.capacity = 16
  /\ \A start \in NamesOf(decl.params) \cup NamesOf(decl.locals) :
       find_binding_index_by_name(func.params_and_locals.bindings,
                                  Reference(start)) >= 0

\* The names a func may bind, each through an allocation of its own.
FuncNames == {Slice(start + 64) : start \in 1 .. 24}

\* In how many occupied slots of h the name is bound.
BindingCount(h, name) ==
  Cardinality({slot \in Occupied(h) :
    wasm_string_slices_are_equal(h.entries.data[slot].binding.name, name)})

\* The indices the name is bound to in h.
BoundIndices(h, name) ==
  {h.entries.data[slot].binding.index : slot \in
     {slot \in Occupied(h) :
        wasm_string_slices_are_equal(h.entries.data[slot].binding.name, name)}}

\* A step that is a successful wasm_extend_type_bindings(dst, src): the types
\* of src are appended, a name bound in src to i resolves in dst to i + L, and
\* a name bound in dst only keeps its index.  With only_new, this is said of
\* the names of src bound once in src and not bound in dst before; the other
\* names of src resolve to their old index in dst or to a shifted one of src.
ExtendStep(only_new) ==
  (ret'.op = "extend" /\ ret'.result = WASM_OK) =>
    LET dst == func.params_and_locals
        after == func'.params_and_locals
        src == func[ret'.src]
        L == Len(dst.types)
    IN /\ after.types = dst.types \o src.types
       /\ \A name \in FuncNames :
            LET in_src == find_binding_index_by_name(src.bindings, name)
                in_dst == find_binding_index_by_name(dst.bindings, name)
                found == find_binding_index_by_name(after.bindings, name)
            IN /\ (in_src >= 0 /\ (only_new => in_dst < 0 /\
                                     BindingCount(src.bindings, name) = 1))
                    => found = in_src + L
               /\ (in_dst >= 0 /\ in_src < 0) => found = in_dst
               /\ in_src >= 0 =>
                    found \in BoundIndices(dst.bindings, name) \cup
                      {i + L : i \in BoundIndices(src.bindings, name)}

\* After params_and_locals was extended with params and then with locals,
\* each named local at position j resolves to (number of params) + j and
\* each named param to its position.  With only_new, this is said of the
\* names declared once in the func.
ParamsThenLocals(only_new) ==
  pc = "extended_locals" =>
    LET all == decl.params \o decl.locals
        once(p) == \A q \in 1 .. Len(all) :
                     (q # p /\ all[q] # 0) => ~SameName(all[p], all[q])
    IN \A p \in 1 .. Len(all) :
         (all[p] # 0 /\ (only_new => once(p))) =>
           wasm_get_local_index_by_var(func,
             [type |-> WASM_VAR_TYPE_NAME, name |-> Reference(all[p])]) = p - 1

BytesOf(slice) == SubSeq(MemBytes(slice.start), 1, slice.length)

\* C9: wasm_func_is_exported is true exactly when some export names the func
\* by the bytes of its non-null name, or gives an index within the funcs
\* vector whose entry is that very func; funcs.data is read at indices within
\* the vector only.
ExportedByNameOrIdentity ==
  ret.op = "is_exported" =>
    LET name == FuncAt(ret.func).name
    IN /\ ret.value = 1 <=>
            \E i \in 1 .. Len(module.exports) :
              LET var == module.exports[i].var
              IN IF var.type = WASM_VAR_TYPE_NAME
                 THEN /\ var.name.start # 0
                      /\ name.start # 0
                      /\ BytesOf(var.name) = BytesOf(name)
                 ELSE /\ var.index \in 0 .. Len(module.funcs) - 1
                      /\ module.funcs[var.index + 1] = ret.func
       /\ ret.value \in {0, 1}
       /\ ret.reads \subseteq 0 .. Len(module.funcs) - 1

\* C9's case: the func without a name is found exported through an index,
\* after an export with a negative index and beside a func that is not.
ExportedByIndexOnly ==
  /\ ret.op = "is_exported"
  /\ ret.value = 1
  /\ FuncAt(ret.func).name.start = 0
  /\ Len(module.exports) >= 2
  /\ module.exports[1].var = IndexVar(0 - 1)
  /\ wasm_func_is_exported(module, 1).value = 0

\* C4: the capacity is 0 before the first insert and 8 * 2^(k-1) after the
\* k-th growth; a call of wasm_insert_binding grows the table exactly when it
\* finds the free list empty (and the allocation succeeds), by one step.
GrowsExactlyWhenFull ==
  /\ [](Capacity = IF growths = 0 THEN 0
                   ELSE INITIAL_HASH_CAPACITY * 2 ^ (growths - 1))
  /\ [][/\ (hash.free_head = NULL /\ ~ret'.reserve_failed)
             <=> hash'.entries.capacity # hash.entries.capacity
        /\ hash'.entries.capacity # hash.entries.capacity
             => hash'.entries.capacity =
                  IF hash.entries.capacity = 0 THEN INITIAL_HASH_CAPACITY
                  ELSE 2 * hash.entries.capacity]_vars

\* C4's case: the third growth has happened.
ThirdGrowth == growths = 3 /\ Capacity = 32

\* C10: wasm_insert_binding returns NULL only when the allocation in
\* wasm_hash_resize failed, and then the table and what it resolves are as
\* before the call.
FailedInsertLeavesTable ==
  /\ [](ret.op = "insert" => (ret.binding = NULL <=> ret.reserve_failed))
  /\ [][(ret'.op = "insert" /\ ret'.binding = NULL)
          => /\ hash' = hash
             /\ \A i \in 1 .. Len(inserted) :
                  find_binding_index_by_name(hash', Reference(inserted[i])) = i - 1]_vars

\* C10's case: an insert into a full table of eight names has failed.
FailedGrowthOfFullTable ==
  /\ ret.op = "insert"
  /\ ret.binding = NULL
  /\ hash.entries.size = 8
  /\ hash.free_head = NULL

\* The inserts that succeeded since the capacity last changed, the one that
\* changed it included.
InsertsInThisArray == {i \in 1 .. Len(placed) : placed[i].growths = growths}

\* C11 as claimed: entries.size is the number of occupied slots, which is the
\* number of inserts that succeeded so far; every successful insert, one that
\* grows the table included, leaves it one more than it was.
SizeCountsInserts ==
  /\ [](/\ hash.entries.size = Cardinality(Occupied(hash))
        /\ hash.entries.size = Len(inserted))
  /\ [][(ret'.op = "insert" /\ ret'.binding # NULL)
          => hash'.entries.size = hash.entries.size + 1]_vars

\* C11 in the code: the occupied slots are as many as the inserts that
\* succeeded, and entries.size counts those since the capacity last changed:
\* wasm_hash_resize replaces the table by new_hash, whose size is 0.
SizeCountsInsertsInThisArray ==
  /\ Cardinality(Occupied(hash)) = Len(inserted)
  /\ hash.entries.size = Cardinality(InsertsInThisArray)

\* C11's case: the ninth insert has grown a full table of eight names, which
\* holds nine names and has size 1.
SizeLostByGrowth ==
  /\ ret.op = "insert"
  /\ ret.binding # NULL
  /\ growths = 2
  /\ Len(inserted) = 9
  /\ Cardinality(Occupied(hash)) = 9
  /\ hash.entries.size = 1

\* The slots met from slot s on by following next, in the order met, up to a
\* null link or a slot met before.
RECURSIVE FreeListFrom(_, _, _)
FreeListFrom(h, s, walked) ==
  IF s = NULL \/ (\E k \in 1 .. Len(walked) : walked[k] = s) THEN walked
  ELSE FreeListFrom(h, h.entries.data[s].next, Append(walked, s))

\* The list that starts at free_head.
FreeList == FreeListFrom(hash, hash.free_head, << >>)

FreeSlots == Slots(hash) \ Occupied(hash)

\* C12: in a table with a slot array, the list from free_head ends at a null
\* link and holds exactly the free slots, each once and no occupied slot; its
\* head has a null prev and the prev of every other slot of it is the slot
\* before; free_head is null exactly when every slot is occupied; and the
\* next of an occupied slot is null or an occupied slot.
FreeListHoldsFreeSlots ==
  Capacity > 0 =>
    /\ {FreeList[k] : k \in 1 .. Len(FreeList)} = FreeSlots
    /\ Len(FreeList) = Cardinality(FreeSlots)
    /\ Len(FreeList) > 0 =>
         /\ hash.entries.data[FreeList[1]].prev = NULL
         /\ hash.entries.data[FreeList[Len(FreeList)]].next = NULL
    /\ \A k \in 1 .. Len(FreeList) - 1 :
         hash.entries.data[FreeList[k + 1]].prev = FreeList[k]
    /\ (hash.free_head = NULL <=> Occupied(hash) = Slots(hash))
    /\ \A s \in Occupied(hash) :
         \/ hash.entries.data[s].next = NULL
         \/ hash.entries.data[s].next \in Occupied(hash)

\* C12's case: in the third slot array, after every branch of
\* wasm_hash_new_entry has taken slots off the free list, free slots remain
\* and the list no longer runs through them in the order it was built in.
FreeListAfterEveryRemoval ==
  /\ Capacity = 32
  /\ Placements = {"main_free", "second_in_chain", "moved_occupant"}
  /\ Len(FreeList) >= 2
  /\ Len(FreeList) = 32 - Len(inserted)
  /\ \E k \in 1 .. Len(FreeList) - 1 : FreeList[k + 1] # FreeList[k] - 1

====
